---- MODULE Spec2Model ----
(***************************************************************************)
(* A model of the PDF outline extractor of src/main.py: the batch driver   *)
(* process_pdfs, the per-document extract_outline (open, title, first      *)
(* pass, second pass, de-duplication and sort) and the pure helpers they   *)
(* call.                                                                   *)
(*                                                                         *)
(* Text is a sequence of ASCII character codes, so that len, strip, lower, *)
(* isupper, the regular expressions and the string order of the source are *)
(* computed character by character.  Font sizes are integers (points); the *)
(* source's comparisons against avg * 1.1, max * 0.9, ... are done exactly *)
(* by cross-multiplication (avg = sum / n), without floating-point         *)
(* rounding.                                                               *)
(***************************************************************************)
EXTENDS Integers, Sequences, FiniteSets, TLC

(***************************************************************************)
(* Characters and the string built-ins the source uses                     *)
(***************************************************************************)
IsUpperCh(c) == c \in 65..90
IsLowerCh(c) == c \in 97..122
IsAlphaCh(c) == IsUpperCh(c) \/ IsLowerCh(c)
\* \s, and the characters str.strip() removes (ASCII)
IsSpaceCh(c) == c \in {9, 10, 11, 12, 13, 32}
LowerCh(c) == IF IsUpperCh(c) THEN c + 32 ELSE c

SetMin(S) == CHOOSE x \in S : \A y \in S : x <= y
SetMax(S) == 0 - SetMin({0 - x : x \in S})

\* str.lower()
lower(s) == [i \in 1..Len(s) |-> LowerCh(s[i])]

\* str.isupper(): at least one cased character, and no lower-case one
isupper(s) ==
    /\ \E i \in 1..Len(s) : IsUpperCh(s[i])
    /\ \A i \in 1..Len(s) : ~IsLowerCh(s[i])

\* str.strip()
strip(s) ==
    LET keep == {i \in 1..Len(s) : ~IsSpaceCh(s[i])}
    IN  IF keep = {} THEN << >> ELSE SubSeq(s, SetMin(keep), SetMax(keep))

\* the concatenation of pieces[lo..hi]
RECURSIVE Concat(_, _, _)
Concat(pieces, lo, hi) ==
    IF lo > hi THEN << >>
    ELSE IF lo = hi THEN pieces[lo]
    ELSE LET mid == (lo + hi) \div 2
         IN  Concat(pieces, lo, mid) \o Concat(pieces, mid + 1, hi)

\* w in s
Contains(s, w) ==
    \E i \in 1..(Len(s) - Len(w) + 1) : \A j \in 1..Len(w) : s[i + j - 1] = w[j]

\* s.startswith(w), case-insensitively (a literal prefix under re.IGNORECASE)
StartsWithI(s, w) ==
    /\ Len(s) >= Len(w)
    /\ lower(SubSeq(s, 1, Len(w))) = lower(w)

Digits == 48..57
Spaces == {9, 10, 11, 12, 13, 32}
Letters == (65..90) \cup (97..122)
LettersOrSpaces == Letters \cup Spaces

\* the length of the longest run of characters of the class from position i on
\* (what a greedy \d+, \s+ or [a-z]+ consumes there)
RECURSIVE Run(_, _, _)
Run(s, i, class) ==
    IF i > Len(s) \/ s[i] \notin class THEN 0 ELSE 1 + Run(s, i + 1, class)

\* len(s.split()): the number of maximal runs of non-blank characters
WordCount(s) ==
    Cardinality({i \in 1..Len(s) :
        /\ ~IsSpaceCh(s[i])
        /\ (i = 1 \/ IsSpaceCh(s[i - 1]))})

\* re.sub(r'\s+', ' ', text): each run of blanks becomes one space
CollapseSpace(s) ==
    Concat([i \in 1..Len(s) |->
                IF ~IsSpaceCh(s[i]) THEN << s[i] >>
                ELSE IF i = 1 \/ ~IsSpaceCh(s[i - 1]) THEN << 32 >>
                ELSE << >>],
           1, Len(s))

clean_text(text) == strip(CollapseSpace(text))

\* Python's order on str: lexicographic by code point
StrLess(a, b) ==
    LET n == IF Len(a) < Len(b) THEN Len(a) ELSE Len(b)
        differ == {i \in 1..n : a[i] # b[i]}
    IN  IF differ = {} THEN Len(a) < Len(b)
        ELSE a[SetMin(differ)] < b[SetMin(differ)]

(***************************************************************************)
(* Font sizes.  avg_font_size is kept as the pair (sum, n) of              *)
(* sum(font_sizes) / len(font_sizes); a factor 1.1, 1.2, ... is given in   *)
(* tenths and both sides are multiplied out, so comparisons stay exact.    *)
(***************************************************************************)
Mean(font_sizes) ==
    LET RECURSIVE Sum(_)
        Sum(q) == IF q = << >> THEN 0 ELSE q[1] + Sum(Tail(q))
    IN  [sum |-> Sum(font_sizes), n |-> Len(font_sizes)]

\* max(font_sizes)
MaxOf(font_sizes) == SetMax({font_sizes[i] : i \in 1..Len(font_sizes)})

\* font_size >= avg * (tenths / 10)
GeAvgTimes(font_size, avg, tenths) ==
    10 * font_size * avg.n >= tenths * avg.sum

\* font_size > avg * (tenths / 10)
GtAvgTimes(font_size, avg, tenths) ==
    10 * font_size * avg.n > tenths * avg.sum

\* font_size >= max_font_size * (tenths / 10)
GeMaxTimes(font_size, max_font_size, tenths) ==
    10 * font_size >= tenths * max_font_size

\* size_ratio >= tenths / 10, where
\* size_ratio = font_size / avg_font_size if avg_font_size > 0 else 1
RatioGe(font_size, avg, tenths) ==
    IF avg.sum > 0 THEN GeAvgTimes(font_size, avg, tenths) ELSE 10 >= tenths

(***************************************************************************)
(* The helpers of PDFOutlineExtractor                                      *)
(***************************************************************************)
None == "None"

\* bool(flags & 2**4)
is_bold(flags) == (flags \div 16) % 2 = 1

TitleWords ==
    { <<105, 110, 116, 114, 111, 100, 117, 99, 116, 105, 111, 110>>,   \* introduction
      <<111, 118, 101, 114, 118, 105, 101, 119>>,   \* overview
      <<103, 117, 105, 100, 101>>,   \* guide
      <<109, 97, 110, 117, 97, 108>>,   \* manual
      <<114, 101, 112, 111, 114, 116>> }  \* report

BoolInt(b) == IF b THEN 1 ELSE 0

\* is_title_candidate with lengths 5 and 200 rejected (<= 5, >= 200)
is_title_candidate_strict(text, font_size, bold, page_num) ==
    IF page_num > 2 THEN FALSE
    ELSE IF Len(text) <= 5 \/ Len(text) >= 200 THEN FALSE
    ELSE BoolInt(~isupper(text) \/ Len(text) < 50)
           + BoolInt(\E word \in TitleWords : Contains(lower(text), word))
           + BoolInt(font_size > 14)
           + BoolInt(bold) >= 2

is_title_candidate(text, font_size, bold, page_num) ==
    IF page_num > 2 THEN FALSE
    ELSE IF Len(text) < 5 \/ Len(text) > 200 THEN FALSE
    ELSE LET text_lower == lower(text)
             title_indicators ==
                 << ~isupper(text) \/ Len(text) < 50,
                    \E word \in TitleWords : Contains(text_lower, word),
                    font_size > 14,
                    bold >>
         IN  BoolInt(title_indicators[1]) + BoolInt(title_indicators[2])
               + BoolInt(title_indicators[3]) + BoolInt(title_indicators[4]) >= 2

\* determine_heading_level with H1 decided by size_ratio alone
determine_heading_level_ratio_h1(text, font_size, bold, avg_font_size, max_font_size) ==
    IF RatioGe(font_size, avg_font_size, 18) THEN "H1"
    ELSE IF RatioGe(font_size, avg_font_size, 14)
          \/ GeMaxTimes(font_size, max_font_size, 7) THEN "H2"
    ELSE IF RatioGe(font_size, avg_font_size, 12)
          \/ GeMaxTimes(font_size, max_font_size, 6) THEN "H3"
    ELSE IF bold /\ RatioGe(font_size, avg_font_size, 11) THEN "H3"
    ELSE None

determine_heading_level(text, font_size, bold, avg_font_size, max_font_size) ==
    IF RatioGe(font_size, avg_font_size, 18)
          \/ GeMaxTimes(font_size, max_font_size, 9) THEN "H1"
    ELSE IF RatioGe(font_size, avg_font_size, 14)
          \/ GeMaxTimes(font_size, max_font_size, 7) THEN "H2"
    ELSE IF RatioGe(font_size, avg_font_size, 12)
          \/ GeMaxTimes(font_size, max_font_size, 6) THEN "H3"
    ELSE IF bold /\ RatioGe(font_size, avg_font_size, 11) THEN "H3"
    ELSE None

(***************************************************************************)
(* is_heading_by_pattern: each regular expression of patterns_to_check,    *)
(* matched at the start of the text under re.IGNORECASE (so [A-Z] and      *)
(* [a-z] both mean any letter), then the additional checks.                *)
(***************************************************************************)
\* ^\d+\.?\s+[A-Z]
MatchNumbered(s) ==
    LET d   == Run(s, 1, Digits)
        dot == IF d + 1 <= Len(s) /\ s[d + 1] = 46 THEN 1 ELSE 0
        w   == Run(s, d + dot + 1, Spaces)
        k   == d + dot + w + 1
    IN  d >= 1 /\ w >= 1 /\ k <= Len(s) /\ s[k] \in Letters

\* ^<word>\s+<class>+   (Chapter\s+\d+, Section\s+\d+, Part\s+[IVX]+)
MatchKeyword(s, word, class) ==
    LET w == Run(s, Len(word) + 1, Spaces)
        k == Len(word) + w + 1
    IN  StartsWithI(s, word) /\ w >= 1 /\ k <= Len(s) /\ s[k] \in class

\* ^[A-Z][A-Z\s]{5,}$
MatchAllCaps(s) ==
    /\ Len(s) >= 6
    /\ s[1] \in Letters
    /\ \A i \in 2..Len(s) : s[i] \in LettersOrSpaces

\* ^[A-Z][a-z]+(?:\s+[A-Z][a-z]+)*[.:]?$
MatchTitleCase(s) ==
    LET n    == Len(s)
        body == IF n >= 1 /\ s[n] \in {46, 58} THEN SubSeq(s, 1, n - 1) ELSE s
        m    == Len(body)
    IN  /\ m >= 2
        /\ body[1] \in Letters
        /\ body[m] \in Letters
        /\ \A i \in 1..m : body[i] \in LettersOrSpaces
        \* every word has at least two letters
        /\ \A i \in 1..m :
              (body[i] \in Letters /\ (i = 1 \/ body[i - 1] \in Spaces))
                  => (i < m /\ body[i + 1] \in Letters)

\* ^\d+\.\d+
MatchDecimal(s) ==
    LET d == Run(s, 1, Digits)
    IN  /\ d >= 1
        /\ d + 2 <= Len(s)
        /\ s[d + 1] = 46
        /\ s[d + 2] \in Digits

RomanIVX == {73, 86, 88, 105, 118, 120}

is_heading_by_pattern(text) ==
    LET text_clean == strip(text)
    IN  \/ MatchNumbered(text_clean)
        \/ MatchKeyword(text_clean, <<67, 104, 97, 112, 116, 101, 114>>, Digits)   \* Chapter
        \/ MatchKeyword(text_clean, <<83, 101, 99, 116, 105, 111, 110>>, Digits)   \* Section
        \/ MatchKeyword(text_clean, <<80, 97, 114, 116>>, RomanIVX)   \* Part
        \/ MatchAllCaps(text_clean)
        \/ MatchTitleCase(text_clean)
        \/ MatchDecimal(text_clean)
        \/ /\ WordCount(text_clean) <= 8
           /\ IsUpperCh(text_clean[1])
           /\ text_clean[Len(text_clean)] \notin {46, 33, 63}
           /\ Len(text_clean) > 3

(***************************************************************************)
(* Documents.  A document is its metadata title (the empty string stands   *)
(* for a missing or empty title: both are falsy in the test of line 137)   *)
(* and its pages, each the sequence of spans page.get_text("dict") yields, *)
(* a span being [text, size, flags] (font and bbox are never read).        *)
(* An input file is a document together with the faults its processing     *)
(* meets: fitz.open raising, doc.metadata raising, get_text raising on one *)
(* page (0: on none), the result file's write raising, the error file's    *)
(* write raising.                                                          *)
(***************************************************************************)
VARIABLES
    pdf_files,           \* process_pdfs: the list of input files
    k,                   \* process_pdfs: index of the file being processed
    pc,                  \* the control point
    title,               \* extract_outline: title
    potential_titles,    \* extract_title: potential_titles
    page_num,            \* extract_outline: pages read by the first pass
    all_formatted_text,  \* extract_outline: all_formatted_text
    levels,              \* extract_outline: level of each item, second pass
    outline,             \* extract_outline: outline (before de-duplication)
    result,              \* extract_outline: the value returned, once returned
    escaped,             \* an exception left extract_outline
    files                \* the output directory: file k's content, if written

vars == << pdf_files, k, pc, title, potential_titles, page_num,
           all_formatted_text, levels, outline, result, escaped, files >>

NoFault == [open |-> FALSE, meta |-> FALSE, page |-> 0,
            write |-> FALSE, errwrite |-> FALSE]

doc == pdf_files[k].doc
fault == pdf_files[k].fault

\* extract_text_with_formatting(page), page.number = number
RECURSIVE extract_text_with_formatting(_, _)
extract_text_with_formatting(page, number) ==
    IF page = << >> THEN << >>
    ELSE LET span == page[1]
             rest == extract_text_with_formatting(Tail(page), number)
         IN  IF strip(span.text) # << >>
             THEN << [text |-> strip(span.text), font_size |-> span.size,
                      flags |-> span.flags, page |-> number + 1] >> \o rest
             ELSE rest

FontSizes(formatted_text) ==
    [i \in 1..Len(formatted_text) |-> formatted_text[i].font_size]

Flatten(seqs) == Concat(seqs, 1, Len(seqs))

(***************************************************************************)
(* extract_title                                                           *)
(***************************************************************************)
\* the metadata test with a trimmed length of 5 accepted (>= 5)
MetadataTitleUsableFrom5(d) ==
    /\ Len(d.title) > 0 /\ Len(strip(d.title)) > 0
    /\ Len(strip(d.title)) >= 5 /\ Len(strip(d.title)) < 200

\* the metadata title is returned (lines 137-140)
MetadataTitleUsable(d) ==
    /\ Len(d.title) > 0 /\ Len(strip(d.title)) > 0
    /\ Len(strip(d.title)) > 5 /\ Len(strip(d.title)) < 200

ScannedPages(d) == IF Len(d.pages) < 3 THEN Len(d.pages) ELSE 3

\* the candidates one page adds to potential_titles (lines 146-171)
PageTitles(d, number) ==
    LET formatted_text == extract_text_with_formatting(d.pages[number + 1], number)
        Cand(item) ==
            IF is_title_candidate(strip(item.text), item.font_size,
                                  is_bold(item.flags), number + 1)
            THEN << [text |-> strip(item.text),
                     font_size |-> item.font_size,
                     page |-> number + 1,
                     score |-> item.font_size
                               + (IF is_bold(item.flags) THEN 10 ELSE 0)
                               + (IF number = 0 THEN 5 ELSE 0)] >>
            ELSE << >>
    IN  Flatten([i \in 1..Len(formatted_text) |-> Cand(formatted_text[i])])

PotentialTitles(d) ==
    Flatten([p \in 1..ScannedPages(d) |-> PageTitles(d, p - 1)])

\* the last of the maxima
BestTitleLast(titles) ==
    LET best == SetMax({i \in 1..Len(titles) :
                    \A j \in 1..Len(titles) : titles[j].score <= titles[i].score})
    IN  titles[best]

\* max(potential_titles, key=lambda x: x["score"]): the first of the maxima
BestTitle(titles) ==
    LET best == SetMin({i \in 1..Len(titles) :
                    \A j \in 1..Len(titles) : titles[j].score <= titles[i].score})
    IN  titles[best]

DocumentStr == <<68, 111, 99, 117, 109, 101, 110, 116>>   \* "Document"
ErrorStr == <<69, 114, 114, 111, 114>>                    \* "Error"

extract_title(d) ==
    IF MetadataTitleUsable(d) THEN strip(d.title)
    ELSE IF PotentialTitles(d) # << >> THEN BestTitle(PotentialTitles(d)).text
    ELSE DocumentStr

\* extract_title raises: doc.metadata does, or get_text does on a page it scans
TitleRaises(d, f) ==
    \/ f.meta
    \/ ~MetadataTitleUsable(d) /\ f.page \in 1..ScannedPages(d)

(***************************************************************************)
(* extract_outline: the second pass over one item (lines 218-250).  The    *)
(* value is the level (None: no heading) and the branch that decided:      *)
(* "skipped" (line 225), "size" (line 232), "pattern" (lines 235-241) or   *)
(* "none".                                                                 *)
(***************************************************************************)
\* LevelOf with the size-driven path entered only above 1.5 x average
LevelOfAbove15(item, avg_font_size, max_font_size) ==
    LET text == strip(item.text)
        font_size == item.font_size
        bold == is_bold(item.flags)
        by_size ==
            IF GtAvgTimes(font_size, avg_font_size, 15)
            THEN determine_heading_level(text, font_size, bold,
                                         avg_font_size, max_font_size)
            ELSE None
    IN  IF Len(text) < 3 \/ Len(text) > 200
        THEN [level |-> None, by |-> "skipped"]
        ELSE IF by_size # None
        THEN [level |-> by_size, by |-> "size"]
        ELSE IF bold \/ is_heading_by_pattern(text)
        THEN [level |-> IF GeAvgTimes(font_size, avg_font_size, 14) THEN "H1"
                        ELSE IF GeAvgTimes(font_size, avg_font_size, 12) THEN "H2"
                        ELSE "H3",
              by |-> "pattern"]
        ELSE [level |-> None, by |-> "none"]

LevelOf(item, avg_font_size, max_font_size) ==
    LET text == strip(item.text)
        font_size == item.font_size
        bold == is_bold(item.flags)
        by_size ==
            IF GtAvgTimes(font_size, avg_font_size, 11)
            THEN determine_heading_level(text, font_size, bold,
                                         avg_font_size, max_font_size)
            ELSE None
    IN  IF Len(text) < 3 \/ Len(text) > 200
        THEN [level |-> None, by |-> "skipped"]
        ELSE IF by_size # None
        THEN [level |-> by_size, by |-> "size"]
        ELSE IF bold \/ is_heading_by_pattern(text)
        THEN [level |-> IF GeAvgTimes(font_size, avg_font_size, 14) THEN "H1"
                        ELSE IF GeAvgTimes(font_size, avg_font_size, 12) THEN "H2"
                        ELSE IF bold \/ is_heading_by_pattern(text) THEN "H3"
                        ELSE None,
              by |-> "pattern"]
        ELSE [level |-> None, by |-> "none"]

\* the levels of all items, from the document-wide statistics (lines 210-241)
LevelsOf(formatted) ==
    LET font_sizes == FontSizes(formatted)
    IN  [i \in 1..Len(formatted) |->
            LevelOf(formatted[i], Mean(font_sizes), MaxOf(font_sizes))]

\* outline, as the second pass leaves it (lines 243-250)
OutlineOf(formatted, lv) ==
    Flatten([i \in 1..Len(formatted) |->
        IF lv[i].level # None
        THEN << [level |-> lv[i].level,
                 text |-> clean_text(strip(formatted[i].text)),
                 page |-> formatted[i].page] >>
        ELSE << >>])

(***************************************************************************)
(* extract_outline: de-duplication and sort (lines 252-261)                *)
(***************************************************************************)
\* the key without lower()
DedupKeyCaseSensitive(item) == << item.level, item.text, item.page >>

DedupKey(item) == << item.level, lower(item.text), item.page >>

RECURSIVE Unique(_, _)
Unique(items, seen) ==
    IF items = << >> THEN << >>
    ELSE IF DedupKey(items[1]) \notin seen
         THEN << items[1] >> \o Unique(Tail(items), seen \cup {DedupKey(items[1])})
         ELSE Unique(Tail(items), seen)

\* the sort key without the text: key=lambda x: x["page"]
SortKeyLessPageOnly(a, b) == a.page < b.page

\* (a.page, a.text) < (b.page, b.text), as Python compares tuples
SortKeyLess(a, b) ==
    \/ a.page < b.page
    \/ a.page = b.page /\ StrLess(a.text, b.text)

\* list.sort is stable: an item goes after every item already there whose
\* key is not greater
RECURSIVE InsertSorted(_, _)
InsertSorted(sorted, x) ==
    IF sorted = << >> THEN << x >>
    ELSE IF SortKeyLess(x, sorted[1]) THEN << x >> \o sorted
    ELSE << sorted[1] >> \o InsertSorted(Tail(sorted), x)

RECURSIVE SortByPageText(_)
SortByPageText(items) ==
    IF items = << >> THEN << >>
    ELSE InsertSorted(SortByPageText(SubSeq(items, 1, Len(items) - 1)),
                      items[Len(items)])

\* the de-duplication without the sort
unique_outline_unsorted(items) == Unique(items, {})

unique_outline(items) == SortByPageText(Unique(items, {}))

ErrorResult == [title |-> ErrorStr, outline |-> << >>]

(***************************************************************************)
(* The actions.  Open ... Assemble are the steps of extract_outline; Start,*)
(* Save and Handler are process_pdfs around it.                            *)
(***************************************************************************)
Locals == << title, potential_titles, page_num, all_formatted_text,
             levels, outline, result, escaped >>

LocalsInit ==
    /\ title = << >>
    /\ potential_titles = << >>
    /\ page_num = 0
    /\ all_formatted_text = << >>
    /\ levels = << >>
    /\ outline = << >>
    /\ result = << >>
    /\ escaped = FALSE

\* the for loop of process_pdfs takes the next file, or ends
Advance ==
    IF k < Len(pdf_files)
    THEN /\ k' = k + 1
         /\ pc' = "open"
         /\ title' = << >>
         /\ potential_titles' = << >>
         /\ page_num' = 0
         /\ all_formatted_text' = << >>
         /\ levels' = << >>
         /\ outline' = << >>
         /\ result' = << >>
         /\ escaped' = FALSE
    ELSE /\ pc' = "done"
         /\ UNCHANGED << k, Locals >>

\* process_pdfs, lines 274-291: no input file ends the run
Start ==
    /\ pc = "start"
    /\ pc' = IF pdf_files = << >> THEN "done" ELSE "open"
    /\ UNCHANGED << pdf_files, k, Locals, files >>

\* extract_outline, lines 185-189
Open ==
    /\ pc = "open"
    /\ IF fault.open
       THEN /\ result' = << ErrorResult >>
            /\ pc' = "save"
       ELSE /\ pc' = "title"
            /\ UNCHANGED result
    /\ UNCHANGED << pdf_files, k, title, potential_titles, page_num,
                    all_formatted_text, levels, outline, escaped, files >>

\* extract_outline, line 192: nothing catches what extract_title raises
Title ==
    /\ pc = "title"
    /\ IF TitleRaises(doc, fault)
       THEN /\ escaped' = TRUE
            /\ pc' = "except"
            /\ UNCHANGED << title, potential_titles >>
       ELSE /\ title' = extract_title(doc)
            /\ potential_titles' =
                   IF MetadataTitleUsable(doc) THEN << >> ELSE PotentialTitles(doc)
            /\ pc' = "first_pass"
            /\ UNCHANGED escaped
    /\ UNCHANGED << pdf_files, k, page_num, all_formatted_text, levels,
                    outline, result, files >>

\* extract_outline, lines 200-203: one page of the first pass
FirstPass ==
    /\ pc = "first_pass"
    /\ page_num < Len(doc.pages)
    /\ IF fault.page = page_num + 1
       THEN /\ escaped' = TRUE
            /\ pc' = "except"
            /\ UNCHANGED << page_num, all_formatted_text >>
       ELSE /\ all_formatted_text' = all_formatted_text \o
                   extract_text_with_formatting(doc.pages[page_num + 1], page_num)
            /\ page_num' = page_num + 1
            /\ UNCHANGED << pc, escaped >>
    /\ UNCHANGED << pdf_files, k, title, potential_titles, levels, outline,
                    result, files >>

\* extract_outline, lines 205-207
ReturnEmpty ==
    /\ pc = "first_pass"
    /\ page_num = Len(doc.pages)
    /\ all_formatted_text = << >>
    /\ result' = << [title |-> title, outline |-> << >>] >>
    /\ pc' = "save"
    /\ UNCHANGED << pdf_files, k, title, potential_titles, page_num,
                    all_formatted_text, levels, outline, escaped, files >>

\* extract_outline, lines 209-250
SecondPass ==
    /\ pc = "first_pass"
    /\ page_num = Len(doc.pages)
    /\ all_formatted_text # << >>
    /\ levels' = LevelsOf(all_formatted_text)
    /\ outline' = OutlineOf(all_formatted_text, LevelsOf(all_formatted_text))
    /\ pc' = "assemble"
    /\ UNCHANGED << pdf_files, k, title, potential_titles, page_num,
                    all_formatted_text, result, escaped, files >>

\* extract_outline, lines 252-269
Assemble ==
    /\ pc = "assemble"
    /\ result' = << [title |-> title, outline |-> unique_outline(outline)] >>
    /\ pc' = "save"
    /\ UNCHANGED << pdf_files, k, title, potential_titles, page_num,
                    all_formatted_text, levels, outline, escaped, files >>

\* process_pdfs, lines 299-304: a write that raises leaves no result file
\* behind (at most a truncated one) and enters the handler
Save ==
    /\ pc = "save"
    /\ IF fault.write
       THEN /\ pc' = "except"
            /\ UNCHANGED << k, Locals, files >>
       ELSE /\ files' = [files EXCEPT ![k] = result]
            /\ Advance
    /\ UNCHANGED pdf_files

\* process_pdfs, lines 306-314: nothing catches what the handler's own
\* write raises, and the exception leaves process_pdfs
Handler ==
    /\ pc = "except"
    /\ IF fault.errwrite
       THEN /\ pc' = "aborted"
            /\ UNCHANGED << k, Locals, files >>
       ELSE /\ files' = [files EXCEPT ![k] = << ErrorResult >>]
            /\ Advance
    /\ UNCHANGED pdf_files

(***************************************************************************)
(* Inputs                                                                  *)
(***************************************************************************)
Rep(c, n) == [i \in 1..n |-> c]

Span(text, size, flags) == [text |-> text, size |-> size, flags |-> flags]

\* the sequences of exactly n pages that hold at most total spans of pool
RECURSIVE PagesWith(_, _, _)
PagesWith(pool, n, total) ==
    IF n = 0 THEN { << >> }
    ELSE UNION { { << page >> \o rest :
                      page \in [1..m -> pool],
                      rest \in PagesWith(pool, n - 1, total - m) } :
                 m \in 0..total }

\* documents of 1..max_pages pages
DocsWith(metas, pool, max_pages, total) ==
    { [title |-> t, pages |-> p] :
        t \in metas,
        p \in UNION { PagesWith(pool, n, total) : n \in 1..max_pages } }

S_Intro == <<73, 110, 116, 114, 111>>   \* "Intro"
S_INTRO == <<73, 78, 84, 82, 79>>   \* "INTRO"
S_Zeta == <<90, 101, 116, 97>>   \* "Zeta"
S_alpha_beta == <<32, 97, 108, 112, 104, 97, 32, 32, 98, 101, 116, 97, 32>>   \* " alpha  beta "
S_p3 == <<112, 46, 32, 51>>   \* "p. 3"
S_ab == <<97, 98>>   \* "ab"
S_abc == <<97, 98, 99>>   \* "abc"
S_Abcd == <<65, 98, 99, 100>>   \* "Abcd"
S_Report == <<82, 101, 112, 111, 114, 116>>   \* "Report"
S_Summary == <<83, 117, 109, 109, 97, 114, 121>>   \* "Summary"
S_Annual == <<65, 110, 110, 117, 97, 108>>   \* "Annual"
S_AnnualPadded == <<32, 32, 65, 110, 110, 117, 97, 108, 32>>   \* "  Annual "
S_Title == <<84, 105, 116, 108, 101>>   \* "Title"
S_TitlePadded == <<32, 84, 105, 116, 108, 101, 32>>   \* " Title "
S_Blank == <<32, 32, 32>>   \* "   "

MaxDocs == 2
MaxSpans == 3
MaxPages == 2
MaxClassifySpans == 4
MaxLengthSpans == 2
MaxTitleSpans == 2
MaxTitlePages == 3

\* documents for de-duplication and order: equal keys with different text,
\* equal (page, text) with different levels, text that differs in case
AssemblyPool ==
    { Span(S_Intro, 20, 0), Span(S_INTRO, 20, 0), Span(S_Intro, 11, 0),
      Span(S_Zeta, 11, 16), Span(S_alpha_beta, 11, 16) }

\* one-page documents for the levels: sizes around the thresholds, bold and
\* plain text, with and without a heading pattern
ClassifyPool ==
    { Span(S_Intro, 20, 0), Span(S_Intro, 11, 16), Span(S_p3, 4, 0),
      Span(S_p3, 11, 0), Span(S_Intro, 13, 0), Span(S_Intro, 11, 0) }

\* one-page documents for the length filter: 2, 3, 200 and 201 characters
LengthPool ==
    { Span(S_ab, 20, 16), Span(S_abc, 20, 16), Span(S_p3, 10, 0),
      Span(Rep(97, 200), 20, 16), Span(Rep(97, 201), 20, 16) }

OutlineDocs ==
    DocsWith({ << >> }, AssemblyPool, MaxPages, MaxSpans)
        \cup DocsWith({ << >> }, ClassifyPool, 1, MaxClassifySpans)
        \cup DocsWith({ << >> }, LengthPool, 1, MaxLengthSpans)

\* documents for the title: lengths 4, 5 and 6, a lexicon word, sizes on
\* both sides of 14, bold and plain, equal scores
TitlePool ==
    { Span(S_Intro, 12, 16), Span(S_Abcd, 16, 16), Span(S_Report, 12, 0),
      Span(S_Summary, 12, 0), Span(S_Summary, 16, 16), Span(S_Report, 12, 16),
      Span(DocumentStr, 12, 16) }

\* one-page documents for the title's length tests: upper case of 49 and 50
\* characters, 200 and 201 characters
TitleLengthPool ==
    { Span(Rep(65, 50), 12, 16), Span(Rep(65, 49), 12, 16),
      Span(Rep(97, 200), 16, 0), Span(Rep(97, 201), 16, 16),
      Span(S_Summary, 16, 16) }

MetaTitles ==
    { << >>, S_Blank, S_Title, S_TitlePadded, S_Annual, S_AnnualPadded,
      Rep(98, 199), Rep(98, 200) }

TitleDocs ==
    DocsWith({ << >> }, TitlePool, MaxTitlePages, MaxTitleSpans)
        \cup DocsWith({ << >> }, TitleLengthPool, 1, MaxLengthSpans)
        \cup DocsWith(MetaTitles, { Span(S_Summary, 16, 16) }, MaxTitlePages, 1)

\* the batch driver's inputs: two documents under each pattern of faults
DriverDocs ==
    { [title |-> << >>, pages |-> << << >> >>],
      [title |-> S_Annual,
       pages |-> << << Span(S_Intro, 20, 0), Span(S_p3, 11, 0) >> >>] }

FaultPool ==
    { NoFault,
      [NoFault EXCEPT !.open = TRUE],
      [NoFault EXCEPT !.meta = TRUE],
      [NoFault EXCEPT !.page = 1],
      [NoFault EXCEPT !.write = TRUE],
      [NoFault EXCEPT !.write = TRUE, !.errwrite = TRUE],
      [NoFault EXCEPT !.meta = TRUE, !.errwrite = TRUE] }

InputFiles == { [doc |-> d, fault |-> f] : d \in DriverDocs, f \in FaultPool }

Init ==
    /\ pdf_files \in UNION { [1..n -> InputFiles] : n \in 0..MaxDocs }
    /\ k = 1
    /\ pc = "start"
    /\ LocalsInit
    /\ files = [i \in 1..Len(pdf_files) |-> << >>]

Next ==
    \/ Start
    \/ Open
    \/ Title
    \/ FirstPass
    \/ ReturnEmpty
    \/ SecondPass
    \/ Assemble
    \/ Save
    \/ Handler

Spec == Init /\ [][Next]_vars

\* extract_outline alone, on one document that reads without fault
InitOutline ==
    /\ pdf_files \in { << [doc |-> d, fault |-> NoFault] >> : d \in OutlineDocs }
    /\ k = 1
    /\ pc = "open"
    /\ LocalsInit
    /\ files = << << >> >>

NextOutline ==
    \/ Open
    \/ Title
    \/ FirstPass
    \/ ReturnEmpty
    \/ SecondPass
    \/ Assemble

SpecOutline == InitOutline /\ [][NextOutline]_vars

\* extract_title alone
InitTitle ==
    /\ pdf_files \in { << [doc |-> d, fault |-> NoFault] >> : d \in TitleDocs }
    /\ k = 1
    /\ pc = "open"
    /\ LocalsInit
    /\ files = << << >> >>

NextTitle ==
    \/ Open
    \/ Title

SpecTitle == InitTitle /\ [][NextTitle]_vars

(***************************************************************************)
(* Properties                                                              *)
(***************************************************************************)
Returned == result # << >>
ReturnedOutline == result[1].outline
AfterTitle == pc = "first_pass"
AfterSecondPass == levels # << >>

\* C1: extract_outline never lets an exception escape: every way a document
\* can fail to be read ends in a returned result, and that result is exactly
\* {title: "Error", outline: []}.
C1_NoExceptionEscapes ==
    /\ ~escaped
    /\ (Returned /\ (fault.open \/ fault.meta \/ fault.page # 0))
           => result[1] = ErrorResult

\* C2: when process_pdfs has ended, however the documents failed, every
\* input document has its output file.
C2_EveryInputHasOutput ==
    pc \in {"done", "aborted"}
        => \A i \in 1..Len(pdf_files) : files[i] # << >>

\* C3: a returned outline has no two entries with the same (level,
\* lower-cased text, page); every candidate's key is kept once, and the
\* entry kept for a key is the first candidate of the second pass with it.
C3_NoDuplicateKeys ==
    Returned =>
        LET Key(e) == << e.level, lower(e.text), e.page >>
            o == ReturnedOutline
        IN  /\ \A i, j \in 1..Len(o) : i # j => Key(o[i]) # Key(o[j])
            /\ \A c \in 1..Len(outline) :
                   \E i \in 1..Len(o) : Key(o[i]) = Key(outline[c])
            /\ \A i \in 1..Len(o) :
                   \E c \in 1..Len(outline) :
                       /\ o[i] = outline[c]
                       /\ \A b \in 1..(c - 1) : Key(outline[b]) # Key(o[i])

\* C3, witness: a returned outline from which a later candidate was dropped
\* whose text differs, in case only, from the text of the entry kept.
C3_Witness ==
    /\ Returned
    /\ \E b, c \in 1..Len(outline) :
           /\ b < c
           /\ outline[b].level = outline[c].level
           /\ outline[b].page = outline[c].page
           /\ outline[b].text # outline[c].text
           /\ lower(outline[b].text) = lower(outline[c].text)
           /\ \E i \in 1..Len(ReturnedOutline) : ReturnedOutline[i] = outline[b]

\* C4: a returned outline is non-decreasing in page, and within a page
\* non-decreasing in the code-point order of the text.
C4_SortedByPageThenText ==
    Returned =>
        \A i \in 1..(Len(ReturnedOutline) - 1) :
            LET a == ReturnedOutline[i]
                b == ReturnedOutline[i + 1]
            IN  \/ a.page < b.page
                \/ a.page = b.page /\ ~StrLess(b.text, a.text)

\* C4, witness: a returned outline over two pages, with two entries of one
\* page whose case-sensitive order is not their case-insensitive order, that
\* the sort had to reorder.
C4_Witness ==
    /\ Returned
    /\ \E i \in 1..(Len(ReturnedOutline) - 1) :
           /\ ReturnedOutline[i].page = ReturnedOutline[i + 1].page
           /\ StrLess(ReturnedOutline[i].text, ReturnedOutline[i + 1].text)
           /\ StrLess(lower(ReturnedOutline[i + 1].text),
                      lower(ReturnedOutline[i].text))
    /\ \E i, j \in 1..Len(ReturnedOutline) :
           ReturnedOutline[i].page # ReturnedOutline[j].page
    /\ ReturnedOutline # outline

Orderings(n) ==
    { f \in [1..n -> 1..n] : \A i, j \in 1..n : i # j => f[i] # f[j] }

Reordered(items, f) == [i \in 1..Len(items) |-> items[f[i]]]

KeysOf(items) ==
    { << items[i].level, lower(items[i].text), items[i].page >> :
        i \in 1..Len(items) }

\* candidates that agree on page and lower-cased text are the same candidate
NoNearDuplicates(items) ==
    \A i, j \in 1..Len(items) :
        (items[i].page = items[j].page
            /\ lower(items[i].text) = lower(items[j].text))
        => items[i] = items[j]

\* C5, as claimed: every reordering of the candidates gives the same
\* outline, entry for entry.
C5_OrderIndependent ==
    Returned =>
        \A f \in Orderings(Len(outline)) :
            unique_outline(Reordered(outline, f)) = ReturnedOutline

\* C5, amended: every reordering of the candidates gives an outline with the
\* same keys (level, lower-cased text, page) and the same length; it gives
\* the same outline, entry for entry, when the candidates that agree on page
\* and lower-cased text are identical.
C5_OrderIndependentKeys ==
    Returned =>
        \A f \in Orderings(Len(outline)) :
            LET other == unique_outline(Reordered(outline, f))
            IN  /\ KeysOf(other) = KeysOf(ReturnedOutline)
                /\ Len(other) = Len(ReturnedOutline)
                /\ NoNearDuplicates(outline) => other = ReturnedOutline

\* C5, witness: candidates with a repeated key and no near-duplicates, at
\* least two entries kept, and an extraction order the sort had to change.
C5_Witness ==
    /\ Returned
    /\ NoNearDuplicates(outline)
    /\ Len(ReturnedOutline) >= 2
    /\ Len(outline) > Len(ReturnedOutline)
    /\ \E i \in 1..Len(ReturnedOutline) : ReturnedOutline[i] # outline[i]

TrimmedLen == Len(strip(doc.title))

\* the title the page heuristics give: the first candidate of highest
\* score, or "Document" without a candidate
HeuristicTitle(titles) ==
    IF titles = << >> THEN DocumentStr
    ELSE LET best == CHOOSE b \in 1..Len(titles) :
                 /\ \A j \in 1..Len(titles) : titles[j].score <= titles[b].score
                 /\ \A j \in 1..(b - 1) : titles[j].score < titles[b].score
         IN  titles[best].text

\* C6, as claimed: a metadata title of trimmed length 6..199 is returned
\* as declared, whatever the pages hold; one of trimmed length at most 5 or
\* at least 200 is not returned by the short-circuit (the pages decide).
C6_MetadataVerbatim ==
    AfterTitle =>
        /\ TrimmedLen \in 6..199 => title = doc.title
        /\ TrimmedLen \notin 6..199 => title = HeuristicTitle(potential_titles)

\* C6, amended: a metadata title of trimmed length 6..199 is returned with
\* its leading and trailing blanks removed, whatever the pages hold; one of
\* trimmed length at most 5 or at least 200 is not returned by the
\* short-circuit (the pages decide).
C6_MetadataTrimmed ==
    AfterTitle =>
        /\ TrimmedLen \in 6..199 => title = strip(doc.title)
        /\ TrimmedLen \notin 6..199 => title = HeuristicTitle(potential_titles)

\* C6, witness: a padded metadata title of usable length was returned for a
\* document whose pages hold a title candidate.
C6_Witness ==
    /\ AfterTitle
    /\ TrimmedLen \in 6..199
    /\ doc.title # strip(doc.title)
    /\ title = strip(doc.title)
    /\ PotentialTitles(doc) # << >>

\* the items of the pages extract_title scans, in page-then-fragment order
ScannedItems ==
    Flatten([p \in 1..ScannedPages(doc) |->
                extract_text_with_formatting(doc.pages[p], p - 1)])

ClaimedScore(item) ==
    item.font_size + (IF is_bold(item.flags) THEN 10 ELSE 0)
                   + (IF item.page = 1 THEN 5 ELSE 0)

\* potential_titles is the candidates among the scanned items, in order,
\* each with its claimed score
ScoredInOrder ==
    \E pick \in [1..Len(potential_titles) -> 1..Len(ScannedItems)] :
        /\ \A i, j \in 1..Len(potential_titles) : i < j => pick[i] < pick[j]
        /\ \A i \in 1..Len(potential_titles) :
               /\ potential_titles[i].text = ScannedItems[pick[i]].text
               /\ potential_titles[i].page = ScannedItems[pick[i]].page
               /\ potential_titles[i].score = ClaimedScore(ScannedItems[pick[i]])

IsCandidate(item) ==
    \E i \in 1..Len(potential_titles) :
        /\ potential_titles[i].text = item.text
        /\ potential_titles[i].font_size = item.font_size
        /\ potential_titles[i].page = item.page
        /\ potential_titles[i].score = ClaimedScore(item)

Indicators(item) ==
    BoolInt(~isupper(item.text) \/ Len(item.text) < 50)
        + BoolInt(\E word \in TitleWords : Contains(lower(item.text), word))
        + BoolInt(item.font_size > 14)
        + BoolInt(is_bold(item.flags))

\* C9, as claimed: a fragment is a title candidate exactly when its length
\* is strictly between 5 and 200, it is on page 1 or 2, and at least 2 of
\* the 4 indicators hold.
C9_CandidateStrictLength ==
    (AfterTitle /\ TrimmedLen \notin 6..199) =>
        \A n \in 1..Len(ScannedItems) :
            IsCandidate(ScannedItems[n]) <=>
                /\ Len(ScannedItems[n].text) > 5
                /\ Len(ScannedItems[n].text) < 200
                /\ ScannedItems[n].page \in {1, 2}
                /\ Indicators(ScannedItems[n]) >= 2

\* C9, amended: a fragment is a title candidate exactly when its length is
\* between 5 and 200 inclusive, it is on page 1 or 2, and at least 2 of the
\* 4 indicators hold.
C9_CandidateInclusiveLength ==
    (AfterTitle /\ TrimmedLen \notin 6..199) =>
        \A n \in 1..Len(ScannedItems) :
            IsCandidate(ScannedItems[n]) <=>
                /\ Len(ScannedItems[n].text) >= 5
                /\ Len(ScannedItems[n].text) <= 200
                /\ ScannedItems[n].page \in {1, 2}
                /\ Indicators(ScannedItems[n]) >= 2

\* C9, witness: a fragment of exactly 5 or exactly 200 characters became a
\* candidate, beside a fragment of page 3 that did not.
C9_Witness ==
    /\ AfterTitle
    /\ TrimmedLen \notin 6..199
    /\ \E n \in 1..Len(ScannedItems) :
           /\ Len(ScannedItems[n].text) \in {5, 200}
           /\ IsCandidate(ScannedItems[n])
    /\ \/ \E n \in 1..Len(ScannedItems) :
              /\ ScannedItems[n].page = 3
              /\ Indicators(ScannedItems[n]) >= 2
              /\ ~IsCandidate(ScannedItems[n])
       \/ \E n \in 1..Len(ScannedItems) :
              /\ Len(ScannedItems[n].text) = 201
              /\ Indicators(ScannedItems[n]) >= 2
              /\ ~IsCandidate(ScannedItems[n])

\* the document-wide statistics, as exact numbers: average = SizeSum / SizeN
SizeSum ==
    LET RECURSIVE Total(_)
        Total(n) == IF n = 0 THEN 0
                    ELSE all_formatted_text[n].font_size + Total(n - 1)
    IN  Total(Len(all_formatted_text))
SizeN == Len(all_formatted_text)
SizeMax ==
    CHOOSE m \in { all_formatted_text[n].font_size : n \in 1..SizeN } :
        \A n \in 1..SizeN : all_formatted_text[n].font_size <= m

\* size_ratio >= tenths / 10 and font_size >= (tenths / 10) x max_size
RatioAtLeast(item, tenths) == 10 * item.font_size * SizeN >= tenths * SizeSum
OfMaxAtLeast(item, tenths) == 10 * item.font_size >= tenths * SizeMax

InLengthRange(item) == Len(item.text) >= 3 /\ Len(item.text) <= 200
AboveAverage(item) == 10 * item.font_size * SizeN > 11 * SizeSum

\* the level the four rules of the size-driven path give, in their order
RuleLevel(item) ==
    IF RatioAtLeast(item, 18) \/ OfMaxAtLeast(item, 9) THEN "H1"
    ELSE IF RatioAtLeast(item, 14) \/ OfMaxAtLeast(item, 7) THEN "H2"
    ELSE IF RatioAtLeast(item, 12) \/ OfMaxAtLeast(item, 6) THEN "H3"
    ELSE IF is_bold(item.flags) /\ RatioAtLeast(item, 11) THEN "H3"
    ELSE None

\* the item is in the outline of the second pass with this level
Emitted(item, level) ==
    \E c \in 1..Len(outline) :
        /\ outline[c].level = level
        /\ outline[c].text = clean_text(item.text)
        /\ outline[c].page = item.page

\* C8: a fragment of trimmed length 3..200 with font_size > 1.1 x average
\* gets the level of the first matching rule of the size-driven path, and a
\* level set this way is the one it is emitted with.
C8_SizeRulesInOrder ==
    AfterSecondPass =>
        \A n \in 1..SizeN :
            LET item == all_formatted_text[n]
            IN  (InLengthRange(item) /\ AboveAverage(item)
                    /\ RuleLevel(item) # None)
                => /\ levels[n].level = RuleLevel(item)
                   /\ levels[n].by = "size"
                   /\ Emitted(item, RuleLevel(item))

\* C8, witness: one fragment got H1 by the first rule and another H3 by the
\* last one (bold, size_ratio in [1.1, 1.2), below 0.6 x max), although it
\* is bold and matches the heading patterns.
C8_Witness ==
    /\ AfterSecondPass
    /\ \E n \in 1..SizeN :
           /\ AboveAverage(all_formatted_text[n])
           /\ levels[n] = [level |-> "H1", by |-> "size"]
    /\ \E n \in 1..SizeN :
           /\ AboveAverage(all_formatted_text[n])
           /\ ~RatioAtLeast(all_formatted_text[n], 12)
           /\ ~OfMaxAtLeast(all_formatted_text[n], 6)
           /\ is_bold(all_formatted_text[n].flags)
           /\ is_heading_by_pattern(all_formatted_text[n].text)
           /\ levels[n] = [level |-> "H3", by |-> "size"]

====
